---- MODULE Spec2Model ----
(***************************************************************************)
(* Model of the PCB -> Bitrix24 field mapping and dictionary resolution    *)
(* engine (app/bitrix24.py, app/bitrix24_dictionaries.py,                  *)
(* app/db_dictionaries.py).                                                *)
(*                                                                         *)
(* Python strings are sequences of one-character strings; None is the      *)
(* value Null.  Floating point numbers are integers in thousandths.        *)
(***************************************************************************)
EXTENDS Integers, Sequences, FiniteSets, TLC

VARIABLES
    text,        \* normalizer harness: the input text
    impl,        \* normalizer harness: which module's normalize_text is applied
    norm1,       \* normalize_text(text), or Unset
    norm2,       \* normalize_text(normalize_text(text)), or Unset
    env,         \* the process environment: USE_DB_DICTIONARIES, DICTIONARIES_DB_URL,
                 \* and whether get_db_dictionaries() can build its engine
    rows,        \* which contents the remote table bitrix24_dictionaries has
    dbUp,        \* whether a fetch from the remote table succeeds now
    cache,       \* DbDictionaries._cache of the singleton
    now,         \* time.time()
    query,       \* lookup harness: the entry point called and its argument
    answer,      \* lookup harness: what the call gave, or NoAnswer
    last,        \* the latest get_*_id call of the running process and its outcome
    storedAt,    \* per (category id, text): when its outcome was last fetched
    calls,       \* number of get_*_id calls made
    ticks,       \* number of clock advances
    pcb_data,    \* mapper: the characteristics record given to the mapper
    result,      \* mapper: what the latest map_pcb_to_bitrix24_fields call gave
    maps,        \* mapper: number of map_pcb_to_bitrix24_fields calls made
    credential,  \* submitter: the webhook_url_or_token given to create_bitrix24_item
    remote,      \* submitter: how the remote system answers a request
    requests,    \* submitter: number of HTTP requests sent
    submitted, \* submitter: what create_bitrix24_item gave, or NoSubmission
    entries,     \* resolver harness: the ordered (text, id) entries of one category
    probe,       \* resolver harness: the text looked up
    found,   \* resolver harness: what each backend's find_item_id gave
    _parsed_pcb_data,  \* interface: the module-level record kept between parse and send
    config,      \* interface: bitrix24_config (webhook_url, token)
    parsedBy,    \* interface: per user, the record of the user's latest parse
    sending,     \* interface: the latest send_to_bitrix24 call: who, which record, outcome
    parsing,     \* interface: the latest parse_excel_pcb call: who, whether it
                 \* raised, and the module-level record before the call
    steps,   \* interface: number of parse and send calls made
    max_retries,  \* retry: the max_retries argument
    delay,       \* retry: the delay argument, in thousandths of a second
    attempt,     \* retry: the loop variable of process_excel_pcb_with_retry
    position,    \* retry: where the call is: invoke, sleep, done, or idle
    invocations,  \* retry: number of llm_parser.invoke calls made
    errors,      \* retry: the messages of the exceptions the invocations raised, in order
    waited,      \* retry: total time slept, in thousandths of a second
    outcome      \* retry: what the call gave: returned (record or None), raised, or none yet

normVars == <<text, impl, norm1, norm2>>
storeVars == <<env, rows, dbUp, cache, now>>
lookupVars == <<query, answer>>
callVars == <<last, storedAt, calls, ticks>>
mapVars == <<pcb_data, result, maps>>
submitVars == <<credential, remote, requests, submitted>>
findVars == <<entries, probe, found>>
uiVars == <<_parsed_pcb_data, config, parsedBy, sending, parsing, steps>>
retryVars == <<max_retries, delay, attempt, position, invocations, errors, waited, outcome>>
vars == <<normVars, storeVars, lookupVars, callVars, mapVars, submitVars, findVars, uiVars, retryVars>>

\* ------------------------------------------------------------------ bounds
\* longest input text of the normalizer harness
MaxLen == 3
\* most get_*_id calls in one run of the process
MaxCalls == 2
\* most clock advances in one run of the process
MaxTicks == 2
\* most tokens in a board_size text
MaxTokens == 3
\* most mapper calls on one record (parse_excel_pcb maps it, send_pcb_to_bitrix24
\* maps it again)
MaxMaps == 2
\* most entries in a dictionary of the resolver harness
MaxEntries == 3
\* most parse_excel_pcb and send_to_bitrix24 calls in one run of the interface
MaxSteps == 3
\* largest max_retries given to process_excel_pcb_with_retry
MaxRetries == 3

\* ------------------------------------------------------------ Python values
\* Python's None: a value that is no text (its only element is no character)
Null == <<"<None>">>
\* a result slot that no call has filled yet
Unset == <<"<unset>">>

\* `not x` for x a str or None
Falsy(x) == x = Null \/ x = <<>>

\* str(x) for x a str or None
Str(x) == IF x = Null THEN <<"N", "o", "n", "e">> ELSE x

\* str.lower() on the upper-case letters
ToLower ==
    "A" :> "a" @@ "B" :> "b" @@ "C" :> "c" @@ "D" :> "d" @@ "E" :> "e" @@
    "F" :> "f" @@ "G" :> "g" @@ "H" :> "h" @@ "I" :> "i" @@ "J" :> "j" @@
    "K" :> "k" @@ "L" :> "l" @@ "M" :> "m" @@ "N" :> "n" @@ "O" :> "o" @@
    "P" :> "p" @@ "Q" :> "q" @@ "R" :> "r" @@ "S" :> "s" @@ "T" :> "t" @@
    "U" :> "u" @@ "V" :> "v" @@ "W" :> "w" @@ "X" :> "x" @@ "Y" :> "y" @@
    "Z" :> "z"

\* str.lower() on one character
LowerChar(c) == IF c \in DOMAIN ToLower THEN ToLower[c] ELSE c

\* str.lower()
Lower(s) == [i \in 1..Len(s) |-> LowerChar(s[i])]

\* the characters str.strip() and str.split() treat as whitespace
IsSpace(c) == c \in {" ", "\t", "\n"}

\* str.lstrip()
RECURSIVE LStrip(_)
LStrip(s) == IF s # <<>> /\ IsSpace(Head(s)) THEN LStrip(Tail(s)) ELSE s

\* str.rstrip()
RECURSIVE RStrip(_)
RStrip(s) ==
    IF s # <<>> /\ IsSpace(s[Len(s)]) THEN RStrip(SubSeq(s, 1, Len(s) - 1)) ELSE s

\* str.strip()
Strip(s) == RStrip(LStrip(s))

\* s.replace(c, "") for a one-character c
Remove(s, c) == SelectSeq(s, LAMBDA d : d # c)

\* s.replace(c, " ") for a one-character c
ToSpace(s, c) == [i \in 1..Len(s) |-> IF s[i] = c THEN " " ELSE s[i]]

\* bitrix24_dictionaries.normalize_text
normalize_text(t) ==
    IF Falsy(t) THEN <<>>
    ELSE Remove(Remove(Remove(Lower(Strip(t)), "-"), "_"), " ")

\* db_dictionaries.normalize_text
db_normalize_text(t) ==
    IF Falsy(t) THEN <<>>
    ELSE Remove(Remove(Remove(Lower(Strip(t)), "-"), "_"), " ")

\* ------------------------------------------------------- string helpers
\* `sub in s` for two strings
Contains(sub, s) ==
    \E i \in 0..(Len(s) - Len(sub)) : SubSeq(s, i + 1, i + Len(sub)) = sub

\* index of the first whitespace character of s, or Len(s) + 1
FirstSpace(s) ==
    IF \E i \in 1..Len(s) : IsSpace(s[i])
    THEN CHOOSE i \in 1..Len(s) :
             IsSpace(s[i]) /\ \A j \in 1..(i - 1) : ~IsSpace(s[j])
    ELSE Len(s) + 1

\* str.split(): the whitespace-delimited words of s, in order
RECURSIVE Split(_)
Split(s) ==
    LET t == LStrip(s)
    IN  IF t = <<>> THEN <<>>
        ELSE LET n == FirstSpace(t)
             IN  <<SubSeq(t, 1, n - 1)>> \o Split(SubSeq(t, n, Len(t)))

\* set(s.split())
Words(s) == LET w == Split(s) IN {w[i] : i \in 1..Len(w)}

Min(S) == CHOOSE i \in S : \A j \in S : i <= j

\* ------------------------------------------------------- lookup outcomes
\* an item id returned by a lookup
IdOf(n) == [t |-> "id", v |-> n]
\* a lookup returning None (not found)
None == [t |-> "none", v |-> 0]
\* a lookup that raised
Raised == [t |-> "raise", v |-> 0]

\* ------------------------------------------ static dictionaries (in order)
MATERIALS_DICT ==
    << [key |-> <<"F", "R", "4">>, id |-> 6281],
       [key |-> <<"F", "R", "-", "4">>, id |-> 6281] >>

FINISH_TYPE_DICT ==
    << [key |-> <<"H", "A", "S", "L">>, id |-> 7010],
       [key |-> <<"H", "A", "S", "L", " ", "L", "e", "a", "d", "-", "F", "r", "e", "e">>, id |-> 7010],
       [key |-> <<"E", "N", "I", "G">>, id |-> 5256],
       [key |-> <<"O", "S", "P">>, id |-> 6610] >>

LAYERS_DICT ==
    << [key |-> <<"1">>, id |-> 6014],
       [key |-> <<"2">>, id |-> 6014],
       [key |-> <<"4">>, id |-> 6014],
       [key |-> <<"6">>, id |-> 6014],
       [key |-> <<"8">>, id |-> 6014] >>

COPPER_THICKNESS_DICT ==
    << [key |-> <<"0", ".", "5", " ", "O", "Z">>, id |-> 6002],
       [key |-> <<"0", ".", "5">>, id |-> 6002],
       [key |-> <<"1", " ", "O", "Z">>, id |-> 6002],
       [key |-> <<"1">>, id |-> 6002],
       [key |-> <<"1", ".", "5", " ", "O", "Z">>, id |-> 6002],
       [key |-> <<"1", ".", "5">>, id |-> 6002],
       [key |-> <<"2", " ", "O", "Z">>, id |-> 6002],
       [key |-> <<"2">>, id |-> 6002] >>

ORDER_UNIT_DICT ==
    << [key |-> <<"U+0448", "U+0442">>, id |-> 5256],
       [key |-> <<"p", "i", "e", "c", "e">>, id |-> 5256],
       [key |-> <<"p", "c", "s">>, id |-> 5256] >>

PCB_TYPE_DICT ==
    << [key |-> <<"R", "i", "g", "i", "d">>, id |-> 5804],
       [key |-> <<"F", "l", "e", "x">>, id |-> 5804],
       [key |-> <<"R", "i", "g", "i", "d", "-", "F", "l", "e", "x">>, id |-> 5804] >>

PEELABLE_SM_DICT ==
    << [key |-> <<"Y", "e", "s">>, id |-> 6270],
       [key |-> <<"N", "o">>, id |-> 6270] >>

PRODUCTION_UNIT_DICT ==
    <<>>

SOLDER_MASK_COLOR_DICT ==
    << [key |-> <<"G", "r", "e", "e", "n">>, id |-> 8002],
       [key |-> <<"R", "e", "d">>, id |-> 8002],
       [key |-> <<"B", "l", "u", "e">>, id |-> 8002],
       [key |-> <<"B", "l", "a", "c", "k">>, id |-> 8002],
       [key |-> <<"W", "h", "i", "t", "e">>, id |-> 8002] >>

SILKSCREEN_COLOR_DICT ==
    << [key |-> <<"G", "r", "e", "e", "n">>, id |-> 7002],
       [key |-> <<"W", "h", "i", "t", "e">>, id |-> 7002],
       [key |-> <<"B", "l", "a", "c", "k">>, id |-> 7002] >>

EDGE_PLATING_DICT ==
    << [key |-> <<"Y", "e", "s">>, id |-> 5860],
       [key |-> <<"N", "o">>, id |-> 5860] >>

\* --------------------------------------------------------- static resolver
\* the fuzzy test of find_item_id on the lowered, stripped input and key
FuzzyHit(input_raw, key_raw) ==
    \/ Contains(key_raw, input_raw)
    \/ Contains(input_raw, key_raw)
    \/ Words(input_raw) \cap Words(key_raw) # {}

\* find_item_id with a single pass over the entries: the first entry that
\* matches exactly or fuzzily wins
find_item_id_SinglePass(text_value, dictionary) ==
    IF Falsy(text_value) THEN None
    ELSE LET normalized_input == normalize_text(text_value)
             input_raw == Strip(Lower(text_value))
             hit == {i \in 1..Len(dictionary) :
                        \/ normalize_text(dictionary[i].key) = normalized_input
                        \/ FuzzyHit(input_raw, Strip(Lower(dictionary[i].key)))}
         IN  IF hit # {} THEN IdOf(dictionary[Min(hit)].id) ELSE None

\* bitrix24_dictionaries.find_item_id (fuzzy_match = True, its default)
find_item_id(text_value, dictionary) ==
    IF Falsy(text_value) THEN None
    ELSE LET normalized_input == normalize_text(text_value)
             exact == {i \in 1..Len(dictionary) :
                          normalize_text(dictionary[i].key) = normalized_input}
             input_raw == Strip(Lower(text_value))
             fuzzy == {i \in 1..Len(dictionary) :
                          FuzzyHit(input_raw, Strip(Lower(dictionary[i].key)))}
         IN  IF exact # {} THEN IdOf(dictionary[Min(exact)].id)
             ELSE IF fuzzy # {} THEN IdOf(dictionary[Min(fuzzy)].id)
             ELSE None

\* ------------------------------------------------------ cached remote store
\* DbDictConfig.cache_ttl_seconds
CacheTtl == 900

\* _get_cached without the expiry test: an entry is served however old it is
_get_cached_NoExpiryTest(c, key, t) ==
    IF key \notin DOMAIN c THEN [item |-> None, cache |-> c]
    ELSE [item |-> c[key].item, cache |-> c]

\* DbDictionaries._get_cached: the item served and the cache it leaves
\* (item None: no entry, an expired entry, or an entry holding None)
_get_cached(c, key, t) ==
    IF key \notin DOMAIN c THEN [item |-> None, cache |-> c]
    ELSE IF c[key].expires_at < t
         THEN [item |-> None,
               cache |-> [k \in DOMAIN c \ {key} |-> c[k]]]
         ELSE [item |-> c[key].item, cache |-> c]

\* DbDictionaries._set_cached
_set_cached(c, key, item, t) ==
    [k \in DOMAIN c \cup {key} |->
        IF k = key THEN [expires_at |-> t + CacheTtl, item |-> item] ELSE c[k]]

\* the matching of DbDictionaries.find_item_id against the fetched rows
db_match(text_value, normalized_value, rws) ==
    LET exact == {i \in 1..Len(rws) :
                     db_normalize_text(rws[i].item) = normalized_value}
        input_raw == Strip(Lower(text_value))
        fuzzy == {i \in 1..Len(rws) :
                     LET key_raw == Strip(Lower(rws[i].item))
                     IN  \/ Contains(key_raw, input_raw)
                         \/ Contains(input_raw, key_raw)
                         \/ Words(input_raw) \cap Words(key_raw) # {}}
    IN  IF exact # {} THEN IdOf(rws[Min(exact)].item_id)
        ELSE IF fuzzy # {} THEN IdOf(rws[Min(fuzzy)].item_id)
        ELSE None

\* DbDictionaries.find_item_id with cache c at time t; up: the fetch succeeds;
\* table: the remote rows by category.  Gives the outcome, the cache left
\* behind and whether a fetch round-trip was made.
db_find_item_id(iblock_id, text_value, c, t, up, table) ==
    LET normalized_value == db_normalize_text(text_value)
        key == <<iblock_id, normalized_value>>
        got == _get_cached(c, key, t)
    IN  IF normalized_value = <<>>
        THEN [out |-> None, cache |-> c, fetched |-> FALSE]
        ELSE IF got.item # None
        THEN [out |-> got.item, cache |-> got.cache, fetched |-> FALSE]
        ELSE IF ~up
        THEN [out |-> Raised, cache |-> got.cache, fetched |-> TRUE]
        ELSE LET item == db_match(text_value, normalized_value, table[iblock_id])
             IN  [out |-> item,
                  cache |-> _set_cached(got.cache, key, item, t),
                  fetched |-> TRUE]

\* ------------------------------------------------------------ entry points
\* the category (IBLOCK) ids of the get_*_id entry points
Categories == {56, 74, 54, 62, 50, 52, 86, 160, 64, 66, 72}

\* bitrix24_dictionaries._try_get_db: whether it returns a DbDictionaries
_try_get_db(e) == e.use_db /\ e.db_url /\ e.engine_ok

\* an entry point that answers from the compiled-in table when the remote
\* lookup raises
lookup_FallbackOnFailure(iblock_id, dictionary, db_text, static_text, st) ==
    LET r == db_find_item_id(iblock_id, db_text, st.cache, st.now, st.up, st.table)
    IN  IF st.db /\ r.out # Raised
        THEN [static |-> FALSE] @@ r
        ELSE [out |-> find_item_id(static_text, dictionary), cache |-> st.cache,
              fetched |-> st.db /\ r.fetched, static |-> TRUE]

\* the body shared by the get_*_id entry points: the remote backend when
\* _try_get_db() gives one, the static table otherwise
lookup(iblock_id, dictionary, db_text, static_text, st) ==
    IF st.db
    THEN [static |-> FALSE] @@
         db_find_item_id(iblock_id, db_text, st.cache, st.now, st.up, st.table)
    ELSE [out |-> find_item_id(static_text, dictionary), cache |-> st.cache,
          fetched |-> FALSE, static |-> TRUE]

IsDigit(c) == c \in {"0", "1", "2", "3", "4", "5", "6", "7", "8", "9"}

\* re.findall(r'\d+', s): whether it is non-empty
HasNumber(s) == \E i \in 1..Len(s) : IsDigit(s[i])

\* re.findall(r'\d+', s)[0]: the first maximal run of digits of s
FirstNumber(s) ==
    LET a == Min({i \in 1..Len(s) : IsDigit(s[i])})
        b == Min({j \in a..Len(s) : j = Len(s) \/ ~IsDigit(s[j + 1])})
    IN  SubSeq(s, a, b)

get_material_id(t, st) == lookup(56, MATERIALS_DICT, t, t, st)

\* get_finish_type_id looking up the materials table (a copy-paste slip)
get_finish_type_id_WrongTable(t, st) == lookup(74, MATERIALS_DICT, t, t, st)

get_finish_type_id(t, st) == lookup(74, FINISH_TYPE_DICT, t, t, st)

get_layers_id(t, st) ==
    lookup(54, LAYERS_DICT, Str(t),
           IF HasNumber(Str(t)) THEN FirstNumber(Str(t)) ELSE t, st)

get_copper_thickness_id(t, st) == lookup(62, COPPER_THICKNESS_DICT, t, t, st)

get_order_unit_id(t, st) == lookup(50, ORDER_UNIT_DICT, t, t, st)

get_pcb_type_id(t, st) == lookup(52, PCB_TYPE_DICT, t, t, st)

get_peelable_sm_id(t, st) == lookup(86, PEELABLE_SM_DICT, t, t, st)

get_production_unit_id(t, st) == lookup(160, PRODUCTION_UNIT_DICT, t, t, st)

get_solder_mask_color_id(t, st) == lookup(64, SOLDER_MASK_COLOR_DICT, t, t, st)

get_silkscreen_color_id(t, st) == lookup(66, SILKSCREEN_COLOR_DICT, t, t, st)

get_edge_plating_id(t, st) == lookup(72, EDGE_PLATING_DICT, t, t, st)

\* the entry point of a category
GetId(cat, t, st) ==
    CASE cat = 56 -> get_material_id(t, st)
      [] cat = 74 -> get_finish_type_id(t, st)
      [] cat = 54 -> get_layers_id(t, st)
      [] cat = 62 -> get_copper_thickness_id(t, st)
      [] cat = 50 -> get_order_unit_id(t, st)
      [] cat = 52 -> get_pcb_type_id(t, st)
      [] cat = 86 -> get_peelable_sm_id(t, st)
      [] cat = 160 -> get_production_unit_id(t, st)
      [] cat = 64 -> get_solder_mask_color_id(t, st)
      [] cat = 66 -> get_silkscreen_color_id(t, st)
      [] cat = 72 -> get_edge_plating_id(t, st)

\* the compiled-in table of a category
StaticDict(cat) ==
    CASE cat = 56 -> MATERIALS_DICT
      [] cat = 74 -> FINISH_TYPE_DICT
      [] cat = 54 -> LAYERS_DICT
      [] cat = 62 -> COPPER_THICKNESS_DICT
      [] cat = 50 -> ORDER_UNIT_DICT
      [] cat = 52 -> PCB_TYPE_DICT
      [] cat = 86 -> PEELABLE_SM_DICT
      [] cat = 160 -> PRODUCTION_UNIT_DICT
      [] cat = 64 -> SOLDER_MASK_COLOR_DICT
      [] cat = 66 -> SILKSCREEN_COLOR_DICT
      [] cat = 72 -> EDGE_PLATING_DICT

\* ------------------------------------------------------------- environment
Envs == [use_db : BOOLEAN, db_url : BOOLEAN, engine_ok : BOOLEAN]

\* a remote table holding the same entries as the compiled-in tables
MirrorTable ==
    [cat \in Categories |->
        [i \in 1..Len(StaticDict(cat)) |->
            [item_id |-> StaticDict(cat)[i].id, item |-> StaticDict(cat)[i].key]]]

\* a remote table with other entries, ids and order
OtherTable ==
    [cat \in Categories |->
        CASE cat = 56 ->
               << [item_id |-> 101, item |-> <<"F", "R", "-", "4">>],
                  [item_id |-> 102, item |-> <<"R", "o", "g", "e", "r", "s">>] >>
          [] cat = 54 ->
               << [item_id |-> 201, item |-> <<"6">>],
                  [item_id |-> 202, item |-> <<"N", "o">>],
                  [item_id |-> 204, item |-> <<"1", "6">>] >>
          [] cat = 72 ->
               << [item_id |-> 301, item |-> <<"N", "o">>],
                  [item_id |-> 302, item |-> <<"Y", "e", "s">>] >>
          [] OTHER -> <<>>]

\* a remote table whose entries have several words
WordsTable ==
    [cat \in Categories |->
        CASE cat = 56 ->
               << [item_id |-> 401, item |-> <<"F", "R", "4", " ", "T", "G">>],
                  [item_id |-> 402, item |-> <<"T", "G", "X", " ", "1">>] >>
          [] OTHER -> <<>>]

RemoteTables == {"mirror", "other"}

\* the rows of the remote table, by category id
RemoteRows(name) ==
    CASE name = "mirror" -> MirrorTable
      [] name = "other" -> OtherTable
      [] name = "words" -> WordsTable

EmptyCache == [k \in {} |-> None]

\* the dictionary store as an entry point finds it
Store == [db |-> _try_get_db(env), cache |-> cache, now |-> now,
          up |-> dbUp, table |-> RemoteRows(rows)]

StoreInit ==
    /\ env \in Envs
    /\ rows \in RemoteTables
    /\ dbUp \in BOOLEAN
    /\ cache = EmptyCache
    /\ now = 0

StoreIdle ==
    /\ env = [use_db |-> TRUE, db_url |-> FALSE, engine_ok |-> TRUE]
    /\ rows = "mirror"
    /\ dbUp = TRUE
    /\ cache = EmptyCache
    /\ now = 0

\* ------------------------------------------------------------ field mapper
\* the output keys
OEM_PN == "ufCrm24_1709799376061"
OEM_DESCRIPTION == "ufCrm24_1709799393816"
REV == "ufCrm24_1709799420584"
BOARD_THICKNESS == "ufCrm24_1708374728464"
MATERIALS == "ufCrm24_1707838248"
NO_OF_LAYERS == "ufCrm24_1709815185"
FINISH_TYPE == "ufCrm24_1707768819"
MAX_COPPER == "ufCrm24_1707838441"
BOARD_LENGTH == "ufCrm24_1708353384301"
BOARD_WIDTH == "ufCrm24_1708353402068"
PANEL_LENGTH == "ufCrm24_1708375852081"
PANEL_WIDTH == "ufCrm24_1708375871512"
EDGE_PLATING == "ufCrm24_1707839110"

\* values of the output dict: a str, a float (in thousandths), an item id
StrVal(x) == [t |-> "str", v |-> x]
FloatVal(n) == [t |-> "float", v |-> n]

\* `if x:` for the outcome of a lookup
Truthy(o) == o.t = "id" /\ o.v # 0

\* fields[k] = v
Put(f, k, v) == [x \in DOMAIN f \cup {k} |-> IF x = k THEN v ELSE f[x]]

NoFields == [k \in {} |-> None]

\* board_thickness = 1.6
DefaultThickness == 1600

\* 0.1 <= x <= 10
Plausible(x) == 100 <= x /\ x <= 10000

DigitValue(c) == CHOOSE n \in 0..9 :
    <<"0", "1", "2", "3", "4", "5", "6", "7", "8", "9">>[n + 1] = c

\* int(s) for a string of digits ("" gives 0)
RECURSIVE DigitsValue(_)
DigitsValue(s) ==
    IF s = <<>> THEN 0
    ELSE 10 * DigitsValue(SubSeq(s, 1, Len(s) - 1)) + DigitValue(s[Len(s)])

Dots(p) == {i \in 1..Len(p) : p[i] = "."}

\* whether float(p) returns (rather than raising ValueError), for a token of
\* digits, points and letters: digits around at most one point
ValidFloat(p) ==
    /\ \A i \in 1..Len(p) : IsDigit(p[i]) \/ p[i] = "."
    /\ \E i \in 1..Len(p) : IsDigit(p[i])
    /\ Cardinality(Dots(p)) <= 1

\* float(p) in thousandths, for a valid p with at most three decimals
FloatValue(p) ==
    IF Dots(p) = {} THEN 1000 * DigitsValue(p)
    ELSE LET d == CHOOSE i \in Dots(p) : TRUE
             frac == SubSeq(p, d + 1, Len(p))
             pad == SubSeq(frac \o <<"0", "0", "0">>, 1, 3)
         IN  1000 * DigitsValue(SubSeq(p, 1, d - 1)) + DigitsValue(pad)

\* p.replace(".", "").isdigit()
IsDigitToken(p) ==
    /\ Remove(p, ".") # <<>>
    /\ \A i \in 1..Len(p) : IsDigit(p[i]) \/ p[i] = "."

\* the loop over the tokens holding a point, from token i on: the first such
\* token in 0.1..10 wins; float() raising ends the loop with the default
RECURSIVE ScanThickness(_, _)
ScanThickness(parts, i) ==
    IF i > Len(parts) THEN DefaultThickness
    ELSE IF "." \in {parts[i][j] : j \in 1..Len(parts[i])}
    THEN IF ~ValidFloat(parts[i]) THEN DefaultThickness
         ELSE IF Plausible(FloatValue(parts[i])) THEN FloatValue(parts[i])
         ELSE ScanThickness(parts, i + 1)
    ELSE ScanThickness(parts, i + 1)

\* board_thickness as the first block of the mapper leaves it
heuristic_thickness(board_size) ==
    IF Falsy(board_size) THEN DefaultThickness
    ELSE ScanThickness(Split(ToSpace(ToSpace(board_size, "x"), "X")), 1)

\* the tokens that the dimension parse turns into numbers
size_tokens(size_text) ==
    SelectSeq(Split(ToSpace(ToSpace(ToSpace(size_text, "x"), "X"), "U+00D7")),
              IsDigitToken)

\* the dimension parse: ok is FALSE when float() raises inside the try block
parse_dimensions(size_text) ==
    LET toks == size_tokens(size_text)
    IN  IF \E i \in 1..Len(toks) : ~ValidFloat(toks[i])
        THEN [ok |-> FALSE, parts |-> <<>>]
        ELSE [ok |-> TRUE, parts |-> [i \in 1..Len(toks) |-> FloatValue(toks[i])]]

\* the OEM Description without its placeholder: empty when nothing contributes
description_NoPlaceholder(rec) ==
    IF Falsy(rec.base_material) /\ Falsy(rec.layer_count) /\ Falsy(rec.coverage_type)
    THEN <<>>
    ELSE <<"M", "a", "t", "e", "r", "i", "a", "l", ":", " ">> \o Str(rec.base_material)

\* the OEM Description
description(rec) ==
    LET material == IF Falsy(rec.base_material) THEN <<>>
                    ELSE << <<"M", "a", "t", "e", "r", "i", "a", "l", ":", " ">>
                            \o rec.base_material >>
        layers == IF Falsy(rec.layer_count) THEN <<>>
                  ELSE << <<"L", "a", "y", "e", "r", "s", ":", " ">>
                          \o rec.layer_count >>
        finish == IF Falsy(rec.coverage_type) THEN <<>>
                  ELSE << <<"F", "i", "n", "i", "s", "h", ":", " ">>
                          \o rec.coverage_type >>
        description_parts == material \o layers \o finish
        join[i \in 0..Len(description_parts)] ==
            IF i = 0 THEN <<>>
            ELSE IF i = 1 THEN description_parts[1]
            ELSE join[i - 1] \o <<",", " ">> \o description_parts[i]
    IN  IF description_parts # <<>> THEN join[Len(description_parts)]
        ELSE <<"P", "C", "B">>

\* the mandatory text and number fields (bitrix24.py lines 123-161)
mandatory_fields(rec) ==
    LET named == IF Falsy(rec.board_name) THEN NoFields
                 ELSE Put(NoFields, OEM_PN, StrVal(rec.board_name))
    IN  Put(Put(Put(named, OEM_DESCRIPTION, StrVal(description(rec))),
                REV, StrVal(<<>>)),
            BOARD_THICKNESS, FloatVal(heuristic_thickness(rec.board_size)))

\* the progress of one mapper call: the fields so far, the cache, whether a
\* lookup raised, and per category what its lookup gave, whether it fetched
\* and whether it read the compiled-in table
StartMap(rec, st) ==
    [fields |-> mandatory_fields(rec), cache |-> st.cache, raised |-> FALSE,
     outs |-> [c \in {} |-> None], fetched |-> {}, static |-> {}]

\* a dictionary block that forwards the source text when the lookup finds nothing
category_step_RawFallback(acc, key, cat, value, st) ==
    IF acc.raised \/ Falsy(value) THEN acc
    ELSE LET r == GetId(cat, value, [st EXCEPT !.cache = acc.cache])
         IN  [fields |-> IF key = "" THEN acc.fields
                         ELSE IF Truthy(r.out) THEN Put(acc.fields, key, r.out)
                         ELSE Put(acc.fields, key, StrVal(value)),
              cache |-> r.cache,
              raised |-> r.out = Raised,
              outs |-> Put(acc.outs, cat, r.out),
              fetched |-> IF r.fetched THEN acc.fetched \cup {cat} ELSE acc.fetched,
              static |-> IF r.static THEN acc.static \cup {cat} ELSE acc.static]

\* a dictionary block without the `if item_id:` test: the key is set to
\* whatever the lookup returned
category_step_NoTruthTest(acc, key, cat, value, st) ==
    IF acc.raised \/ Falsy(value) THEN acc
    ELSE LET r == GetId(cat, value, [st EXCEPT !.cache = acc.cache])
         IN  [fields |-> IF key # "" /\ r.out # Raised
                         THEN Put(acc.fields, key, r.out) ELSE acc.fields,
              cache |-> r.cache,
              raised |-> r.out = Raised,
              outs |-> Put(acc.outs, cat, r.out),
              fetched |-> IF r.fetched THEN acc.fetched \cup {cat} ELSE acc.fetched,
              static |-> IF r.static THEN acc.static \cup {cat} ELSE acc.static]

\* what a dictionary block does with the outcome r of its lookup: the key is
\* set when the id is truthy (`if material_id:`); key "" for the solder mask
\* block, which sets nothing
category_set(acc, key, cat, r) ==
    [fields |-> IF Truthy(r.out) /\ key # ""
                THEN Put(acc.fields, key, r.out) ELSE acc.fields,
     cache |-> r.cache,
     raised |-> r.out = Raised,
     outs |-> Put(acc.outs, cat, r.out),
     fetched |-> IF r.fetched THEN acc.fetched \cup {cat} ELSE acc.fetched,
     static |-> IF r.static THEN acc.static \cup {cat} ELSE acc.static]

\* one dictionary block of the mapper: `if pcb_data.get(field):` look the text
\* up and set the key
category_step(acc, key, cat, value, st) ==
    IF acc.raised \/ Falsy(value) THEN acc
    ELSE category_set(acc, key, cat, GetId(cat, value, [st EXCEPT !.cache = acc.cache]))

\* the board size block without the 0.1..10 test on the third number
board_size_step_NoRangeTest(acc, board_size) ==
    IF acc.raised \/ Falsy(board_size) THEN acc
    ELSE LET d == parse_dimensions(board_size)
             f2 == Put(Put(acc.fields, BOARD_LENGTH, FloatVal(d.parts[1])),
                       BOARD_WIDTH, FloatVal(d.parts[2]))
         IN  IF ~d.ok \/ Len(d.parts) < 2 THEN acc
             ELSE IF Len(d.parts) >= 3
             THEN [acc EXCEPT !.fields = Put(f2, BOARD_THICKNESS, FloatVal(d.parts[3]))]
             ELSE [acc EXCEPT !.fields = f2]

\* the board size block: length and width from two numbers, the thickness
\* from a plausible third one
board_size_step(acc, board_size) ==
    IF acc.raised \/ Falsy(board_size) THEN acc
    ELSE LET d == parse_dimensions(board_size)
             f2 == Put(Put(acc.fields, BOARD_LENGTH, FloatVal(d.parts[1])),
                       BOARD_WIDTH, FloatVal(d.parts[2]))
         IN  IF ~d.ok \/ Len(d.parts) < 2 THEN acc
             ELSE IF Len(d.parts) >= 3 /\ Plausible(d.parts[3])
             THEN [acc EXCEPT !.fields = Put(f2, BOARD_THICKNESS, FloatVal(d.parts[3]))]
             ELSE [acc EXCEPT !.fields = f2]

\* the panelization block
panelization_step(acc, panelization) ==
    IF acc.raised \/ Falsy(panelization) THEN acc
    ELSE LET d == parse_dimensions(panelization)
         IN  IF ~d.ok \/ Len(d.parts) < 2 THEN acc
             ELSE [acc EXCEPT !.fields =
                      Put(Put(acc.fields, PANEL_LENGTH, FloatVal(d.parts[1])),
                          PANEL_WIDTH, FloatVal(d.parts[2]))]

\* the blocks of the mapper after the mandatory fields, in the order of the code
Blocks ==
    << [kind |-> "category", key |-> MATERIALS, cat |-> 56, field |-> "base_material"],
       [kind |-> "category", key |-> NO_OF_LAYERS, cat |-> 54, field |-> "layer_count"],
       [kind |-> "category", key |-> FINISH_TYPE, cat |-> 74, field |-> "coverage_type"],
       [kind |-> "category", key |-> MAX_COPPER, cat |-> 62, field |-> "foil_thickness"],
       [kind |-> "board_size", key |-> "", cat |-> 0, field |-> "board_size"],
       [kind |-> "panelization", key |-> "", cat |-> 0, field |-> "panelization"],
       [kind |-> "category", key |-> "", cat |-> 64, field |-> "solder_mask_colour"],
       [kind |-> "category", key |-> EDGE_PLATING, cat |-> 72, field |-> "edge_plating"] >>

\* one block of the mapper
block_step(acc, b, rec, st) ==
    CASE b.kind = "category" -> category_step(acc, b.key, b.cat, rec[b.field], st)
      [] b.kind = "board_size" -> board_size_step(acc, rec[b.field])
      [] b.kind = "panelization" -> panelization_step(acc, rec[b.field])

\* the mandatory fields followed by the first n blocks
RECURSIVE run_blocks(_, _, _)
run_blocks(rec, st, n) ==
    IF n = 0 THEN StartMap(rec, st)
    ELSE block_step(run_blocks(rec, st, n - 1), Blocks[n], rec, st)

\* what the mapper call gives once its blocks have run: the field set, or the
\* exception of the lookup that raised
returned(acc) ==
    [status |-> IF acc.raised THEN "raised" ELSE "ok",
     fields |-> IF acc.raised THEN NoFields ELSE acc.fields,
     cache |-> acc.cache, outs |-> acc.outs,
     fetched |-> acc.fetched, static |-> acc.static]

\* map_pcb_to_bitrix24_fields
map_pcb_to_bitrix24_fields(rec, st) == returned(run_blocks(rec, st, Len(Blocks)))

\* ------------------------------------------- parts of the state at rest
\* (each specification below runs one part of the program and leaves the
\* variables of the other parts as they are here)
NormIdle ==
    /\ text = Null
    /\ impl = "static"
    /\ norm1 = Unset
    /\ norm2 = Unset

NoAnswer == [out |-> [t |-> "pending", v |-> 0], fetched |-> FALSE, static |-> FALSE]

LookupIdle ==
    /\ query = [cat |-> 56, text |-> Null]
    /\ answer = NoAnswer

NoCall == [cat |-> 0, text |-> Null, out |-> None, fetched |-> FALSE,
           static |-> FALSE, at |-> 0, known |-> FALSE,
           key |-> <<0, <<>>>>, expired |-> FALSE]

CallIdle ==
    /\ last = NoCall
    /\ storedAt = [k \in {} |-> 0]
    /\ calls = 0
    /\ ticks = 0

NoResult == [status |-> "none", fields |-> NoFields, outs |-> [c \in {} |-> None],
             fetched |-> {}, static |-> {}, up |-> TRUE]

\* a record with no field set
NoRecord ==
    [board_name |-> Null, base_material |-> Null, foil_thickness |-> Null,
     layer_count |-> Null, board_size |-> Null, panelization |-> Null,
     coverage_type |-> Null, solder_mask_colour |-> Null, edge_plating |-> Null]

MapIdle ==
    /\ pcb_data = NoRecord
    /\ result = NoResult
    /\ maps = 0

NoSubmission == [t |-> "none", v |-> "", url |-> <<>>]

SubmitIdle ==
    /\ credential = Null
    /\ remote = [transport |-> "ok", status |-> 200, body |-> "item"]
    /\ requests = 0
    /\ submitted = NoSubmission

NotFound2 == [static |-> [t |-> "pending", v |-> 0], db |-> [t |-> "pending", v |-> 0]]

FindIdle ==
    /\ entries = <<>>
    /\ probe = Null
    /\ found = NotFound2

\* the module-level variable holds None or a parsed record
Nothing == [has |-> FALSE, data |-> NoRecord]

Just(r) == [has |-> TRUE, data |-> r]

NoSend == [user |-> "", record |-> Nothing, status |-> "none"]

NoParse == [user |-> "", status |-> "none", before |-> Nothing]

UiIdle ==
    /\ _parsed_pcb_data = Nothing
    /\ config = [webhook_url |-> <<>>, token |-> <<>>]
    /\ parsedBy = [u \in {} |-> Nothing]
    /\ sending = NoSend
    /\ parsing = NoParse
    /\ steps = 0

NotStarted == [t |-> "none", v |-> <<>>]

RetryIdle ==
    /\ max_retries = 0
    /\ delay = 0
    /\ attempt = 0
    /\ position = "idle"
    /\ invocations = 0
    /\ errors = <<>>
    /\ waited = 0
    /\ outcome = NotStarted

\* ------------------------------------------------- the store over time
\* the categories and texts the running process asks about
CallTexts ==
    [cat \in {56, 54, 72} |->
        CASE cat = 56 -> { <<"F", "R", "4">>, <<"f", "r", "-", "4">>,
                           <<"E", "x", "o", "t", "i", "c">> }
          [] cat = 54 -> { <<"6", "-", "l", "a", "y", "e", "r">>, Null }
          [] cat = 72 -> { <<"Y", "e", "s">>, <<"M", "a", "y", "b", "e">> }]

\* the cache key a get_*_id call uses: the category id and the normalized
\* text it passes to DbDictionaries.find_item_id (get_layers_id passes str(text))
CacheKey(cat, t) == <<cat, db_normalize_text(IF cat = 54 THEN Str(t) ELSE t)>>

\* a get_*_id call: the whole call, cache check, fetch and cache fill;
\* `last` also records the cache key and whether the cache held an expired
\* entry for it when the call began
Resolve(cat, t) ==
    /\ calls < MaxCalls
    /\ LET r == GetId(cat, t, Store)
           pair == <<cat, t>>
       IN  /\ last' = [cat |-> cat, text |-> t, out |-> r.out,
                       fetched |-> r.fetched, static |-> r.static, at |-> now,
                       known |-> /\ pair \in DOMAIN storedAt
                                 /\ now <= storedAt[pair] + CacheTtl,
                       key |-> CacheKey(cat, t),
                       expired |-> /\ CacheKey(cat, t) \in DOMAIN cache
                                   /\ cache[CacheKey(cat, t)].expires_at < now]
           /\ cache' = r.cache
           /\ storedAt' =
                 IF r.fetched /\ r.out # Raised
                 THEN [k \in DOMAIN storedAt \cup {pair} |->
                          IF k = pair THEN now ELSE storedAt[k]]
                 ELSE storedAt
    /\ calls' = calls + 1
    /\ UNCHANGED <<env, rows, dbUp, now, ticks, normVars, lookupVars,
                mapVars, submitVars, findVars, uiVars, retryVars>>

\* time passes
Tick(d) ==
    /\ ticks < MaxTicks
    /\ now' = now + d
    /\ ticks' = ticks + 1
    /\ UNCHANGED <<env, rows, dbUp, cache, last, storedAt, calls, normVars,
                lookupVars, mapVars, submitVars, findVars, uiVars, retryVars>>

\* the remote table becomes unreachable
DbFail ==
    /\ dbUp
    /\ dbUp' = FALSE
    /\ UNCHANGED <<env, rows, cache, now, normVars, lookupVars, callVars,
                mapVars, submitVars, findVars, uiVars, retryVars>>

\* the remote table becomes reachable again
DbRecover ==
    /\ ~dbUp
    /\ dbUp' = TRUE
    /\ UNCHANGED <<env, rows, cache, now, normVars, lookupVars, callVars,
                mapVars, submitVars, findVars, uiVars, retryVars>>

DbInit ==
    /\ env \in {e \in Envs : _try_get_db(e)}
    /\ rows \in RemoteTables
    /\ dbUp = TRUE
    /\ cache = EmptyCache
    /\ now = 0
    /\ CallIdle
    /\ NormIdle
    /\ LookupIdle
    /\ MapIdle
    /\ SubmitIdle
    /\ FindIdle
    /\ UiIdle
    /\ RetryIdle

DbNext ==
    \/ \E cat \in DOMAIN CallTexts : \E t \in CallTexts[cat] : Resolve(cat, t)
    \/ \E d \in {1, CacheTtl} : Tick(d)
    \/ DbFail
    \/ DbRecover

SpecDb == DbInit /\ [][DbNext]_vars

\* the same process asking for base materials written in several ways,
\* against a table whose entries have several words
WordTexts == { <<"T", "G", " ", "X">>, <<"T", "G", "X">>, <<"T", "-", "G", "-", "X">>, <<"F", "R", "4", " ", "T", "G">> }

CacheInit ==
    /\ env \in {e \in Envs : _try_get_db(e)}
    /\ rows = "words"
    /\ dbUp = TRUE
    /\ cache = EmptyCache
    /\ now = 0
    /\ CallIdle
    /\ NormIdle
    /\ LookupIdle
    /\ MapIdle
    /\ SubmitIdle
    /\ FindIdle
    /\ UiIdle
    /\ RetryIdle

CacheNext ==
    \/ \E t \in WordTexts : Resolve(56, t)
    \/ \E d \in {1, CacheTtl} : Tick(d)
    \/ DbFail
    \/ DbRecover

SpecCache == CacheInit /\ [][CacheNext]_vars

\* C8: with the cached remote backend, once the outcome of a (category id,
\* text) pair has been resolved, a further resolution of the pair before the
\* TTL elapses makes no fetch round-trip, the outcome being an id or not_found.
C8_NoRefetchWithinTtl == last.known => ~last.fetched

\* C17: a lookup that finds a cache entry whose expiry is earlier than the
\* current time does not serve it: the entry leaves the cache and the lookup
\* makes a new fetch round-trip.
C17_ExpiredEntryNotServed ==
    last.expired =>
        /\ last.fetched
        /\ \/ last.key \notin DOMAIN cache
           \/ cache[last.key].expires_at = last.at + CacheTtl

\* a text cached at time 0 was looked up again at time 901 and fetched anew
C17_Witness ==
    /\ last.expired
    /\ last.fetched
    /\ last.at = CacheTtl + 1
    /\ last.out.t = "id"
    /\ last.key \in DOMAIN cache

\* ---------------------------------------------------------- lookup harness
\* one call of a get_*_id entry point in a fresh process
EntryTexts(cat) == {StaticDict(cat)[i].key : i \in 1..Len(StaticDict(cat))}

ProbeTexts ==
    { Null, <<>>,
      <<"E", "x", "o", "t", "i", "c", "-", "A", "l", "l", "o", "y", "-", "9">>,
      <<"6", "-", "l", "a", "y", "e", "r">>,
      <<"1", "6", " ", "l", "a", "y", "e", "r", "s">>,
      <<"f", "r", "_", "4", " ">> }

Queries == {[cat |-> c, text |-> t] : c \in Categories, t \in ProbeTexts}
           \cup UNION {{[cat |-> c, text |-> t] : t \in EntryTexts(c)} : c \in Categories}

LookupInit ==
    /\ StoreInit
    /\ NormIdle
    /\ CallIdle
    /\ MapIdle
    /\ query \in Queries
    /\ answer = NoAnswer
    /\ SubmitIdle
    /\ FindIdle
    /\ UiIdle
    /\ RetryIdle

Lookup ==
    /\ answer = NoAnswer
    /\ LET r == GetId(query.cat, query.text, Store)
       IN  /\ answer' = [out |-> r.out, fetched |-> r.fetched, static |-> r.static]
           /\ cache' = r.cache
    /\ UNCHANGED <<env, rows, dbUp, now, query, normVars, callVars, mapVars,
                submitVars, findVars, uiVars, retryVars>>

LookupNext == Lookup

SpecLookup == LookupInit /\ [][LookupNext]_vars

\* C5: with the static backend, resolving the text of an entry of a
\* compiled-in table through its category's get_*_id gives that entry's id.
C5_StaticRoundTrip ==
    (answer # NoAnswer /\ ~_try_get_db(env)) =>
        \A i \in 1..Len(StaticDict(query.cat)) :
            StaticDict(query.cat)[i].key = query.text
                => answer.out = IdOf(StaticDict(query.cat)[i].id)

\* a static lookup of an entry's own text has been made and gave an id
C5_Witness ==
    /\ answer # NoAnswer
    /\ ~_try_get_db(env)
    /\ answer.static
    /\ query.cat = 74
    /\ query.text = <<"E", "N", "I", "G">>
    /\ answer.out = IdOf(5256)

\* C6: for every category and both backends, resolving "" or None gives
\* not_found, and the cached remote backend decides it without a fetch.
C6_EmptyIsNotFoundNoFetch ==
    (answer # NoAnswer /\ Falsy(query.text)) =>
        /\ answer.out = None
        /\ ~answer.fetched

\* C15: a get_*_id entry point answers from the compiled-in table only when
\* no connection string is configured; with one configured, a failure to
\* obtain the remote backend or to fetch from it is raised to the caller.
C15_StaticOnlyWhenNotConfigured ==
    answer # NoAnswer =>
        /\ answer.static => ~env.db_url
        /\ (env.db_url /\ (~env.engine_ok \/ (answer.fetched /\ ~dbUp))) =>
              answer.out = Raised

\* the raw text with every non-digit character stripped
DigitsOnly(t) == IF t = Null THEN <<>> ELSE SelectSeq(t, IsDigit)

\* C16: get_layers_id resolves the digit string left after stripping all
\* non-digit characters from the raw text ("6-layer" resolves as "6"), for
\* every input text and whichever backend is selected.
C16_LayersResolvesDigitString ==
    (answer # NoAnswer /\ query.cat = 54) =>
        answer.out = lookup(54, LAYERS_DICT, DigitsOnly(query.text),
                            DigitsOnly(query.text),
                            [Store EXCEPT !.cache = EmptyCache]).out

\* ----------------------------------------------------------- mapper harness
\* map_pcb_to_bitrix24_fields called on one record, up to MaxMaps times in the
\* same process (company_name and quantity are left out: the mapper never
\* reads them)
SizeTokens ==
    { <<"1", "0", "0">>, <<"2">>, <<"1", ".", "6">>, <<"2", ".", "5">>,
      <<"1", "5", ".", "0">>, <<"0", ".", "0", "5">>, <<"1", ".", "2", ".", "3">> }

Separators == {<<"x">>, <<"X">>, <<"U+00D7">>, <<" ">>}

RECURSIVE TokenLists(_)
TokenLists(n) ==
    IF n = 0 THEN {<<>>}
    ELSE TokenLists(n - 1)
         \cup {Append(l, k) : l \in {m \in TokenLists(n - 1) : Len(m) = n - 1},
                              k \in SizeTokens}

RECURSIVE JoinTokens(_, _)
JoinTokens(toks, sep) ==
    IF toks = <<>> THEN <<>>
    ELSE IF Len(toks) = 1 THEN toks[1]
    ELSE toks[1] \o sep \o JoinTokens(Tail(toks), sep)

SizeTexts == {JoinTokens(l, sep) : l \in TokenLists(MaxTokens), sep \in Separators}

\* records that vary in the name and the dictionary-typed fields
CategoryRecords ==
    [board_name : {Null, <<"B", "R", "D", "-", "1">>},
     base_material : {Null, <<"F", "R", "4">>,
                      <<"E", "x", "o", "t", "i", "c", "-", "A", "l", "l", "o", "y", "-", "9">>},
     foil_thickness : {Null, <<"2", " ", "O", "Z">>},
     layer_count : {Null, <<"6", "-", "l", "a", "y", "e", "r">>, <<"3">>},
     board_size : {Null},
     panelization : {Null},
     coverage_type : {Null, <<"E", "N", "I", "G">>},
     solder_mask_colour : {Null, <<"G", "r", "e", "e", "n">>},
     edge_plating : {Null, <<"Y", "e", "s">>, <<"M", "a", "y", "b", "e">>}]

\* records that vary in the board size text
SizeRecords ==
    {[NoRecord EXCEPT !.board_name = <<"B", "R", "D", "-", "1">>, !.board_size = z] :
        z \in SizeTexts}

\* records with an empty name, and records with a panel size
OtherRecords ==
    {[NoRecord EXCEPT !.board_name = <<>>, !.base_material = m] :
        m \in {Null, <<"F", "R", "4">>}}
    \cup {[NoRecord EXCEPT !.board_name = <<"B", "R", "D", "-", "1">>,
                           !.board_size = z, !.panelization = p] :
             z \in {Null, <<"1", "0", "0", "x", "2", "x", "1", ".", "6">>},
             p \in {<<"2", "0", "0", "x", "1", "5", "0">>, <<"2", "0", "0">>,
                    <<"2", "0", "0", "x", "1", ".", "2", ".", "3">>}}

MapInit ==
    /\ env \in {e \in Envs : e.use_db /\ e.engine_ok}
    /\ \/ /\ pcb_data \in CategoryRecords
          /\ IF env.db_url
             THEN rows \in RemoteTables /\ dbUp \in BOOLEAN
             ELSE rows = "mirror" /\ dbUp = TRUE
       \/ /\ pcb_data \in SizeRecords \cup OtherRecords
          /\ ~env.db_url
          /\ rows = "mirror"
          /\ dbUp = TRUE
    /\ cache = EmptyCache
    /\ now = 0
    /\ result = NoResult
    /\ maps = 0
    /\ NormIdle
    /\ LookupIdle
    /\ CallIdle
    /\ SubmitIdle
    /\ FindIdle
    /\ UiIdle
    /\ RetryIdle

\* the state a mapper call that gave r leaves
MapDone(r) ==
    /\ result' = [status |-> r.status, fields |-> r.fields, outs |-> r.outs,
                  fetched |-> r.fetched, static |-> r.static, up |-> dbUp]
    /\ cache' = r.cache

\* the whole mapper call; `up` records whether fetches succeeded during it
Map ==
    /\ maps < MaxMaps
    /\ MapDone(map_pcb_to_bitrix24_fields(pcb_data, Store))
    /\ maps' = maps + 1
    /\ UNCHANGED <<env, rows, dbUp, now, pcb_data, normVars, lookupVars,
                callVars, submitVars, findVars, uiVars, retryVars>>

MapNext ==
    \/ Map
    \/ _try_get_db(env) /\ DbFail
    \/ _try_get_db(env) /\ DbRecover

SpecMap == MapInit /\ [][MapNext]_vars

MandatoryKeys == {OEM_PN, OEM_DESCRIPTION, REV, BOARD_THICKNESS}

\* the output key of each dictionary-typed source field, by category id
CategoryKey ==
    56 :> MATERIALS @@ 54 :> NO_OF_LAYERS @@ 74 :> FINISH_TYPE @@
    62 :> MAX_COPPER @@ 72 :> EDGE_PLATING

\* C1: whatever fields of the record are absent or empty, the returned field
\* set holds the four mandatory keys: name, description, revision, thickness.
C1_MandatoryKeysPresent ==
    result.status = "ok" => MandatoryKeys \subseteq DOMAIN result.fields

\* C2: every dictionary-typed key present in the returned field set holds the
\* item id its category's lookup returned, never the record's source text.
C2_CategoryKeysHoldIds ==
    result.status = "ok" =>
        \A cat \in DOMAIN CategoryKey :
            CategoryKey[cat] \in DOMAIN result.fields =>
                /\ result.fields[CategoryKey[cat]].t = "id"
                /\ cat \in DOMAIN result.outs
                /\ result.fields[CategoryKey[cat]] = result.outs[cat]

\* a mapping whose five dictionary-typed keys are all present
C2_Witness ==
    /\ result.status = "ok"
    /\ \A cat \in DOMAIN CategoryKey : CategoryKey[cat] \in DOMAIN result.fields

\* C3: for each dictionary-typed source field, a lookup that returns an id
\* puts the key in the field set with that id, a lookup that returns
\* not_found leaves the key out, and the mapper then returns without raising.
C3_FoundIncludedNotFoundOmitted ==
    (result.status # "none" /\ \A cat \in DOMAIN result.outs : result.outs[cat] # Raised) =>
        /\ result.status = "ok"
        /\ \A cat \in DOMAIN result.outs \cap DOMAIN CategoryKey :
              /\ result.outs[cat].t = "id" =>
                    /\ CategoryKey[cat] \in DOMAIN result.fields
                    /\ result.fields[CategoryKey[cat]] = result.outs[cat]
              /\ result.outs[cat] = None =>
                    CategoryKey[cat] \notin DOMAIN result.fields

\* a mapping in which one lookup found an id and another found nothing
C3_Witness ==
    /\ result.status = "ok"
    /\ 54 \in DOMAIN result.outs /\ result.outs[54].t = "id"
    /\ NO_OF_LAYERS \in DOMAIN result.fields
    /\ 56 \in DOMAIN result.outs /\ result.outs[56] = None
    /\ MATERIALS \notin DOMAIN result.fields

OnlyNameSet(rec) ==
    /\ ~Falsy(rec.board_name)
    /\ rec = [NoRecord EXCEPT !.board_name = rec.board_name]

\* C4: a record with only board_name set maps to exactly four keys: the name,
\* the description "PCB", the revision "" and the board thickness 1.6.
C4_OnlyNameGivesFourKeys ==
    (result.status # "none" /\ OnlyNameSet(pcb_data)) =>
        /\ result.status = "ok"
        /\ result.fields =
              (OEM_PN :> StrVal(pcb_data.board_name)
               @@ OEM_DESCRIPTION :> StrVal(<<"P", "C", "B">>)
               @@ REV :> StrVal(<<>>)
               @@ BOARD_THICKNESS :> FloatVal(1600))

\* a record with only board_name set has been mapped
C4_Witness ==
    /\ result.status = "ok"
    /\ OnlyNameSet(pcb_data)
    /\ pcb_data.board_name = <<"B", "R", "D", "-", "1">>

\* C9: a fetch that raises during a lookup raises out of the lookup, out of
\* the entry point and out of the mapper: the outcome is neither not_found
\* nor an answer of the compiled-in table.
C9_FetchFailurePropagates ==
    (result.status # "none" /\ ~result.up /\ result.fetched # {}) =>
        /\ result.status = "raised"
        /\ \A cat \in result.fetched :
              /\ result.outs[cat] = Raised
              /\ cat \notin result.static

\* a mapping that raised because the fetch of a lookup raised
C9_Witness ==
    /\ result.status = "raised"
    /\ ~result.up
    /\ 72 \in result.fetched
    /\ result.outs[72] = Raised

\* the third number of the dimension parse of the record's board size
HasThird == /\ ~Falsy(pcb_data.board_size)
            /\ parse_dimensions(pcb_data.board_size).ok
            /\ Len(parse_dimensions(pcb_data.board_size).parts) >= 3
Third == parse_dimensions(pcb_data.board_size).parts[3]

ScanTokens == Split(ToSpace(ToSpace(pcb_data.board_size, "x"), "X"))
Pointed(tok) == \E j \in 1..Len(tok) : tok[j] = "."
ScanPick ==
    {i \in 1..Len(ScanTokens) :
        /\ Pointed(ScanTokens[i])
        /\ ValidFloat(ScanTokens[i])
        /\ Plausible(FloatValue(ScanTokens[i]))
        /\ \A j \in 1..(i - 1) :
              Pointed(ScanTokens[j]) =>
                  /\ ValidFloat(ScanTokens[j])
                  /\ ~Plausible(FloatValue(ScanTokens[j]))}

PointedTokens == {i \in 1..Len(ScanTokens) : Pointed(ScanTokens[i])}

\* the thickness the secondary heuristic leaves as the claim states it: the
\* value of the only token with a decimal point when it lies in 0.1..10, and
\* the default otherwise (no such token, two or more of them, or out of range)
OnlyDecimalToken ==
    IF Cardinality(PointedTokens) = 1
    THEN LET tok == ScanTokens[CHOOSE i \in PointedTokens : TRUE]
         IN  IF ValidFloat(tok) /\ Plausible(FloatValue(tok))
             THEN FloatValue(tok) ELSE DefaultThickness
    ELSE DefaultThickness

\* C18: where the dimension block does not set the thickness (no plausible
\* third number), the board thickness is the value of the only decimal token
\* of board_size when it lies in 0.1..10, and the default 1.6 otherwise; two
\* or more decimal tokens leave the default.
C18_OnlyDecimalTokenOverrides ==
    (result.status = "ok" /\ ~Falsy(pcb_data.board_size)
       /\ ~(HasThird /\ Plausible(Third))) =>
        result.fields[BOARD_THICKNESS] = FloatVal(OnlyDecimalToken)

\* a token that is entirely numeric after stripping a single decimal point
NumericToken(tok) ==
    /\ \E j \in 1..Len(tok) : IsDigit(tok[j])
    /\ \A j \in 1..Len(tok) : IsDigit(tok[j]) \/ tok[j] = "."
    /\ Cardinality({j \in 1..Len(tok) : tok[j] = "."}) <= 1

\* the numbers the dimension parse yields as the claim describes it: the
\* numeric tokens of the text split at whitespace, x, X and the cross, in order
ClaimedNumbers(size_text) ==
    IF Falsy(size_text) THEN <<>>
    ELSE LET toks == SelectSeq(
                 Split(ToSpace(ToSpace(ToSpace(size_text, "x"), "X"), "U+00D7")),
                 NumericToken)
         IN  [i \in 1..Len(toks) |-> FloatValue(toks[i])]

\* the two keys are present exactly when nums has two numbers, and hold them
PairFrom(fields, first, second, nums) ==
    IF Len(nums) >= 2
    THEN /\ first \in DOMAIN fields /\ fields[first] = FloatVal(nums[1])
         /\ second \in DOMAIN fields /\ fields[second] = FloatVal(nums[2])
    ELSE first \notin DOMAIN fields /\ second \notin DOMAIN fields

\* C11: the board length/width keys, and the panel length/width keys, are
\* present exactly when the numeric tokens of the respective text are at least
\* two, and then hold the first and the second number; no text raises.
C11_GeometryKeysFromNumbers ==
    (result.status # "none" /\ \A cat \in DOMAIN result.outs : result.outs[cat] # Raised) =>
        /\ result.status = "ok"
        /\ PairFrom(result.fields, BOARD_LENGTH, BOARD_WIDTH,
                    ClaimedNumbers(pcb_data.board_size))
        /\ PairFrom(result.fields, PANEL_LENGTH, PANEL_WIDTH,
                    ClaimedNumbers(pcb_data.panelization))

\* ------------------------------------------------------ normalizer harness
\* letters of both cases, space, tab, hyphen, underscore
Alphabet == {"a", "A", " ", "\t", "-", "_"}

RECURSIVE StringsUpTo(_, _)
StringsUpTo(alpha, n) ==
    IF n = 0 THEN {<<>>}
    ELSE LET shorter == StringsUpTo(alpha, n - 1)
         IN  shorter \cup {Append(s, c) : s \in shorter, c \in alpha}

Texts == StringsUpTo(Alphabet, MaxLen) \cup {Null}

ApplyNormalize(m, t) ==
    IF m = "static" THEN normalize_text(t) ELSE db_normalize_text(t)

NormInit ==
    /\ StoreIdle
    /\ LookupIdle
    /\ CallIdle
    /\ MapIdle
    /\ text \in Texts
    /\ impl \in {"static", "db"}
    /\ norm1 = Unset
    /\ norm2 = Unset
    /\ SubmitIdle
    /\ FindIdle
    /\ UiIdle
    /\ RetryIdle

Normalize ==
    /\ norm1 = Unset
    /\ norm1' = ApplyNormalize(impl, text)
    /\ UNCHANGED <<text, impl, norm2, storeVars, lookupVars, callVars,
                mapVars, submitVars, findVars, uiVars, retryVars>>

NormalizeAgain ==
    /\ norm1 # Unset
    /\ norm2 = Unset
    /\ norm2' = ApplyNormalize(impl, norm1)
    /\ UNCHANGED <<text, impl, norm1, storeVars, lookupVars, callVars,
                mapVars, submitVars, findVars, uiVars, retryVars>>

NormNext == Normalize \/ NormalizeAgain

SpecNorm == NormInit /\ [][NormNext]_vars

\* C7: normalize_text is idempotent: normalizing an already normalized text
\* gives the same text back, for every input text.
C7_NormalizeIdempotent == norm2 # Unset => norm2 = norm1

\* ---------------------------------------------------------------- submitter
\* BITRIX24_BASE_URL
BITRIX24_BASE_URL == <<"h", "t", "t", "p", "s", ":", "/", "/", "f", "i", "n", "e", "l", "i", "n", "e", ".", "b", "i", "t", "r", "i", "x", "2", "4", ".", "r", "u", "/", "r", "e", "s", "t", "/", "6">>

\* ENTITY_TYPE_ID
ENTITY_TYPE_ID == 182

\* s.startswith(p)
StartsWith(s, p) == Len(p) <= Len(s) /\ SubSeq(s, 1, Len(p)) = p

\* s.endswith(p)
EndsWith(s, p) == Len(p) <= Len(s) /\ SubSeq(s, Len(s) - Len(p) + 1, Len(s)) = p

\* s.rstrip("/")
RECURSIVE RStripSlash(_)
RStripSlash(s) ==
    IF s # <<>> /\ s[Len(s)] = "/" THEN RStripSlash(SubSeq(s, 1, Len(s) - 1)) ELSE s

\* the request URL built from the stripped credential: a full webhook URL,
\* completed with the method name when it lacks it, or a token put on the base URL
request_url(webhook_url_or_token) ==
    LET w == Strip(webhook_url_or_token)
        method == <<"/", "c", "r", "m", ".", "i", "t", "e", "m", ".", "a", "d", "d">>
    IN  IF StartsWith(w, <<"h", "t", "t", "p", ":", "/", "/">>) \/ StartsWith(w, <<"h", "t", "t", "p", "s", ":", "/", "/">>)
        THEN IF EndsWith(w, method) THEN w ELSE RStripSlash(w) \o method
        ELSE BITRIX24_BASE_URL \o <<"/">> \o w \o method

\* the response bodies: which parse as JSON, which hold the key "error"
\* (`"error" in result`), and from which result.get("result", {}).get("item",
\* {}).get("id") can be read without raising
Bodies == {"item", "empty_object", "error_and_description", "error_only",
           "result_number", "result_null", "list", "not_json"}
IsJson(body) == body # "not_json"
HasErrorKey(body) == body \in {"error_and_description", "error_only"}
ItemIdReadable(body) == body \in {"item", "empty_object"}

\* response.raise_for_status() returns: a 2xx status
IsSuccess(status) == 200 <= status /\ status <= 299

\* create_bitrix24_item that returns the body without looking for "error"
create_bitrix24_item_NoEnvelopeTest(webhook_url_or_token, rem) ==
    IF Falsy(webhook_url_or_token)
    THEN [t |-> "raised", v |-> "ValueError", url |-> <<>>, sent |-> 0]
    ELSE LET url == request_url(webhook_url_or_token)
         IN  IF rem.transport # "ok"
             THEN [t |-> "raised", v |-> "Exception", url |-> url, sent |-> 1]
             ELSE IF ~IsSuccess(rem.status)
             THEN [t |-> "raised", v |-> "Exception", url |-> url, sent |-> 1]
             ELSE [t |-> "returned", v |-> rem.body, url |-> url, sent |-> 1]

\* create_bitrix24_item: the outcome, the URL requested and the number of
\* requests sent
create_bitrix24_item(webhook_url_or_token, rem) ==
    IF Falsy(webhook_url_or_token)
    THEN [t |-> "raised", v |-> "ValueError", url |-> <<>>, sent |-> 0]
    ELSE LET url == request_url(webhook_url_or_token)
         IN  IF rem.transport # "ok"
             THEN [t |-> "raised", v |-> "Exception", url |-> url, sent |-> 1]
             ELSE IF ~IsSuccess(rem.status)
             THEN [t |-> "raised", v |-> "Exception", url |-> url, sent |-> 1]
             ELSE IF ~IsJson(rem.body)
             THEN [t |-> "raised", v |-> "JSONDecodeError", url |-> url, sent |-> 1]
             ELSE IF rem.body = "list"
             THEN [t |-> "raised", v |-> "AttributeError", url |-> url, sent |-> 1]
             ELSE IF HasErrorKey(rem.body)
             THEN [t |-> "raised", v |-> "Exception", url |-> url, sent |-> 1]
             ELSE IF ~ItemIdReadable(rem.body)
             THEN [t |-> "raised", v |-> "AttributeError", url |-> url, sent |-> 1]
             ELSE [t |-> "returned", v |-> rem.body, url |-> url, sent |-> 1]

\* the credentials given: none, empty, a token, webhook URLs
Credentials ==
    { Null, <<>>, <<" ", "t", "o", "k", " ">>, <<"h", "t", "t", "p", "s", ":", "/", "/", "h", "/", "r", "e", "s", "t", "/", "6", "/", "t">>, <<"h", "t", "t", "p", "s", ":", "/", "/", "h", "/", "r", "e", "s", "t", "/", "6", "/", "t", "/">>, <<"h", "t", "t", "p", ":", "/", "/", "h", "/", "r", "e", "s", "t", "/", "6", "/", "t", "/", "c", "r", "m", ".", "i", "t", "e", "m", ".", "a", "d", "d">> }

\* the ways the remote system answers
Remotes == [transport : {"ok", "connect_error", "timeout"},
            status : {200, 201, 302, 401, 500},
            body : Bodies]

SubmitInit ==
    /\ StoreIdle
    /\ NormIdle
    /\ LookupIdle
    /\ CallIdle
    /\ MapIdle
    /\ credential \in Credentials
    /\ remote \in Remotes
    /\ requests = 0
    /\ submitted = NoSubmission
    /\ FindIdle
    /\ UiIdle
    /\ RetryIdle

\* the state a create_bitrix24_item call that gave r leaves
Submitted(r) ==
    /\ submitted' = [t |-> r.t, v |-> r.v, url |-> r.url]
    /\ requests' = requests + r.sent

\* the whole create_bitrix24_item call
Create ==
    /\ submitted = NoSubmission
    /\ Submitted(create_bitrix24_item(credential, remote))
    /\ UNCHANGED <<credential, remote, normVars, storeVars, lookupVars,
                callVars, mapVars, findVars, uiVars, retryVars>>

SubmitNext == Create

SpecSubmit == SubmitInit /\ [][SubmitNext]_vars

\* C12: create_bitrix24_item returns a result only for a non-empty credential,
\* a request that completed with a success status and a body without the key
\* "error"; an absent credential fails before any request is sent; a transport
\* failure, an <<"h", "t", "t", "p", ":", "/", "/">> error status and an error envelope each end in a raised error.
C12_ReturnsOnlyOnSuccess ==
    /\ submitted.t = "returned" =>
          /\ ~Falsy(credential)
          /\ requests = 1
          /\ remote.transport = "ok"
          /\ IsSuccess(remote.status)
          /\ ~HasErrorKey(remote.body)
    /\ (submitted.t # "none" /\ Falsy(credential)) =>
          submitted.t = "raised" /\ requests = 0
    /\ (submitted.t # "none" /\ (\/ remote.transport # "ok"
                                 \/ ~IsSuccess(remote.status)
                                 \/ HasErrorKey(remote.body))) =>
          submitted.t = "raised"

\* a token credential, a 200 answer with an item: the result has been returned
\* from a request to the token's URL
C12_Witness ==
    /\ submitted.t = "returned"
    /\ credential = <<" ", "t", "o", "k", " ">>
    /\ remote.status = 200
    /\ remote.body = "item"
    /\ requests = 1
    /\ submitted.url = BITRIX24_BASE_URL \o <<"/">> \o <<"t", "o", "k">> \o <<"/", "c", "r", "m", ".", "i", "t", "e", "m", ".", "a", "d", "d">>

\* --------------------------------------------------------- resolver harness
\* both backends' find_item_id on the same ordered entries, in a fresh process
EntryKeys == { <<"a", " ", "b">>, <<"a", "b">>, <<"a">>, <<"b", " ", "c">>,
               <<"A", "-", "B">> }

\* the ordered lists of up to n entries with distinct texts; ids by position
RECURSIVE KeyLists(_)
KeyLists(n) ==
    IF n = 0 THEN {<<>>}
    ELSE KeyLists(n - 1)
         \cup {Append(l, k) : l \in {m \in KeyLists(n - 1) : Len(m) = n - 1},
                              k \in EntryKeys}

Distinct(l) == \A i, j \in 1..Len(l) : l[i] = l[j] => i = j

EntryLists ==
    {[i \in 1..Len(l) |-> [key |-> l[i], id |-> i]] :
        l \in {m \in KeyLists(MaxEntries) : Distinct(m)}}

Probes == { Null, <<>>, <<"a", "b">>, <<"a", " ", "b">>, <<"a">>, <<"c">>,
            <<"A", "_", "b", " ">>, <<"-">>, <<" ">>, <<"z", "z">> }

\* the entries as the rows fetched for the category
RowsOf(es) == [i \in 1..Len(es) |-> [item_id |-> es[i].id, item |-> es[i].key]]

FindInit ==
    /\ StoreIdle
    /\ NormIdle
    /\ LookupIdle
    /\ CallIdle
    /\ MapIdle
    /\ SubmitIdle
    /\ entries \in EntryLists
    /\ probe \in Probes
    /\ found = NotFound2
    /\ UiIdle
    /\ RetryIdle

\* bitrix24_dictionaries.find_item_id(probe, entries)
FindStatic ==
    /\ found.static.t = "pending"
    /\ found' = [found EXCEPT !.static = find_item_id(probe, entries)]
    /\ UNCHANGED <<entries, probe, normVars, storeVars, lookupVars, callVars,
                   mapVars, submitVars, uiVars, retryVars>>

\* DbDictionaries.find_item_id(56, probe) with an empty cache, the fetch
\* giving the entries as rows
FindDb ==
    /\ found.db.t = "pending"
    /\ found' = [found EXCEPT !.db =
                    db_find_item_id(56, probe, EmptyCache, now, TRUE,
                                    [c \in {56} |-> RowsOf(entries)]).out]
    /\ UNCHANGED <<entries, probe, normVars, storeVars, lookupVars, callVars,
                   mapVars, submitVars, uiVars, retryVars>>

FindNext == FindStatic \/ FindDb

SpecFind == FindInit /\ [][FindNext]_vars

\* the two tiers as the claim states them, on entry i for text t
ExactTier(t, i) == normalize_text(entries[i].key) = normalize_text(t)
FuzzyTier(t, i) ==
    LET a == Strip(Lower(t))
        b == Strip(Lower(entries[i].key))
    IN  \/ Contains(a, b)
        \/ Contains(b, a)
        \/ \E w \in Words(a) : w \in Words(b)

\* entry i is the first one in definition order that passes tier T
FirstIn(T(_, _), t, i) ==
    /\ i \in 1..Len(entries)
    /\ T(t, i)
    /\ \A j \in 1..(i - 1) : ~T(t, j)

\* the outcome the two-tier order gives for text t
TwoTier(t, out) ==
    IF \E i \in 1..Len(entries) : ExactTier(t, i)
    THEN \E i \in 1..Len(entries) : FirstIn(ExactTier, t, i) /\ out = IdOf(entries[i].id)
    ELSE IF \E i \in 1..Len(entries) : FuzzyTier(t, i)
    THEN \E i \in 1..Len(entries) : FirstIn(FuzzyTier, t, i) /\ out = IdOf(entries[i].id)
    ELSE out = None

\* C13: once the text has passed the entry test of each find_item_id (a
\* non-empty text; for DbDictionaries a non-empty normalized text), the result
\* is the id of the first entry in definition order whose normalized text
\* equals the normalized input, even if an earlier entry matches fuzzily;
\* failing that, the id of the first entry that passes the containment test
\* (either direction) or the shared-word test; failing that, not_found.
C13_TwoTierFirstDefined ==
    /\ (found.static.t # "pending" /\ ~Falsy(probe)) => TwoTier(probe, found.static)
    /\ (found.db.t # "pending" /\ db_normalize_text(probe) # <<>>) =>
          TwoTier(probe, found.db)

\* both backends resolved "ab" over the entries ("a", 1), ("ab", 2): the
\* first entry matches fuzzily, the second exactly, and the result is id 2
C13_Witness ==
    /\ entries = << [key |-> <<"a">>, id |-> 1], [key |-> <<"a", "b">>, id |-> 2] >>
    /\ probe = <<"a", "b">>
    /\ FuzzyTier(probe, 1) /\ ~ExactTier(probe, 1) /\ ExactTier(probe, 2)
    /\ found.static = IdOf(2)
    /\ found.db = IdOf(2)

\* C14: given the same ordered entries and an empty cache, the static
\* find_item_id and DbDictionaries.find_item_id give the same outcome for
\* every input text.
C14_BackendsAgree ==
    (found.static.t # "pending" /\ found.db.t # "pending") => found.static = found.db

\* ---------------------------------------------------------------- interface
\* parse_excel_pcb and send_to_bitrix24 called by the users of one process
Users == {"u1", "u2"}

\* the records the extractor gives
ParsedRecords ==
    {[NoRecord EXCEPT !.board_name = n] : n \in {<<"A">>, <<"B">>}}

\* what a parse_excel_pcb call meets: the extraction or the model call
\* raising, the export of the record raising, or the mapping being reached and
\* the last file being written or not
ParseOutcomes ==
    {[kind |-> "extract_fails", rec |-> NoRecord, dumped |-> FALSE]}
    \cup [kind : {"export_fails"}, rec : ParsedRecords, dumped : {FALSE}]
    \cup [kind : {"mapped"}, rec : ParsedRecords, dumped : BOOLEAN]

Configs ==
    { [webhook_url |-> <<>>, token |-> <<>>],
      [webhook_url |-> <<>>, token |-> <<"t", "o", "k">>],
      [webhook_url |-> <<"h", "t", "t", "p", "s", ":", "/", "/", "h", "/", "r", "e", "s", "t", "/", "6", "/", "t">>, token |-> <<"t", "o", "k">>] }

UiRemotes ==
    { [transport |-> "ok", status |-> 200, body |-> "item"],
      [transport |-> "ok", status |-> 200, body |-> "error_only"],
      [transport |-> "timeout", status |-> 200, body |-> "item"] }

UiInit ==
    /\ StoreIdle
    /\ NormIdle
    /\ LookupIdle
    /\ CallIdle
    /\ MapIdle
    /\ FindIdle
    /\ credential = Null
    /\ remote \in UiRemotes
    /\ requests = 0
    /\ submitted = NoSubmission
    /\ _parsed_pcb_data = Nothing
    /\ config \in Configs
    /\ parsedBy = [u \in Users |-> Nothing]
    /\ sending = NoSend
    /\ parsing = NoParse
    /\ steps = 0
    /\ RetryIdle

\* the state a parse_excel_pcb call of user u leaves when it reached the
\* mapping of its record and that gave m
ParseMapped(u, o, m) ==
    /\ _parsed_pcb_data' = Just(o.rec)
    /\ cache' = m.cache
    /\ parsedBy' = IF m.status = "ok" /\ o.dumped
                   THEN [parsedBy EXCEPT ![u] = Just(o.rec)]
                   ELSE parsedBy
    /\ parsing' = [user |-> u, before |-> _parsed_pcb_data,
                   status |-> IF m.status = "ok" /\ o.dumped
                              THEN "returned" ELSE "raised"]

\* the whole parse_excel_pcb call of user u: the record is stored in the
\* module-level variable before the files are written and the mapping is made
Parse(u, o) ==
    /\ steps < MaxSteps
    /\ steps' = steps + 1
    /\ CASE o.kind = "extract_fails" ->
                /\ parsing' = [user |-> u, before |-> _parsed_pcb_data,
                               status |-> "raised"]
                /\ UNCHANGED <<_parsed_pcb_data, parsedBy, cache, retryVars>>
         [] o.kind = "export_fails" ->
                /\ _parsed_pcb_data' = Just(o.rec)
                /\ parsing' = [user |-> u, before |-> _parsed_pcb_data,
                               status |-> "raised"]
                /\ UNCHANGED <<parsedBy, cache, retryVars>>
         [] o.kind = "mapped" ->
                ParseMapped(u, o, map_pcb_to_bitrix24_fields(o.rec, Store))
    /\ UNCHANGED <<env, rows, dbUp, now, config, sending, normVars, lookupVars,
                   callVars, mapVars, submitVars, findVars, retryVars>>

\* webhook_url if webhook_url else token, both stripped
configured_credential(cfg) ==
    IF Strip(cfg.webhook_url) # <<>> THEN Strip(cfg.webhook_url) ELSE Strip(cfg.token)

\* send_pcb_to_bitrix24: map the record, then create the item
send_pcb_to_bitrix24(rec, webhook_url_or_token, rem, st) ==
    LET m == map_pcb_to_bitrix24_fields(rec, st)
    IN  IF m.status = "raised"
        THEN [t |-> "raised", v |-> "Exception", url |-> <<>>, sent |-> 0,
              cache |-> m.cache]
        ELSE [cache |-> m.cache] @@ create_bitrix24_item(webhook_url_or_token, rem)

\* the state a send_to_bitrix24 call of user u leaves when it got as far as
\* send_pcb_to_bitrix24 and that gave r
SendDone(u, r) ==
    /\ sending' = [user |-> u, record |-> _parsed_pcb_data, status |-> r.t]
    /\ submitted' = [t |-> r.t, v |-> r.v, url |-> r.url]
    /\ requests' = requests + r.sent
    /\ cache' = r.cache
    /\ credential' = configured_credential(config)

\* the whole send_to_bitrix24 call of user u
Send(u) ==
    /\ steps < MaxSteps
    /\ steps' = steps + 1
    /\ IF ~_parsed_pcb_data.has
       THEN /\ sending' = [user |-> u, record |-> Nothing, status |-> "nothing_parsed"]
            /\ UNCHANGED <<submitted, requests, cache, credential, retryVars>>
       ELSE IF configured_credential(config) = <<>>
       THEN /\ sending' = [user |-> u, record |-> Nothing, status |-> "no_credential"]
            /\ UNCHANGED <<submitted, requests, cache, credential, retryVars>>
       ELSE SendDone(u, send_pcb_to_bitrix24(_parsed_pcb_data.data,
                                             configured_credential(config),
                                             remote, Store))
    /\ UNCHANGED <<env, rows, dbUp, now, remote, _parsed_pcb_data, config, parsedBy,
                   parsing, normVars, lookupVars, callVars, mapVars, findVars, retryVars>>

UiNext ==
    \/ \E u \in Users : \E o \in ParseOutcomes : Parse(u, o)
    \/ \E u \in Users : Send(u)

SpecUi == UiInit /\ [][UiNext]_vars

\* C19: a send by a user submits the record that the same user last parsed,
\* never the record parsed by another user, however the two users' parse and
\* send calls interleave.
C19_SendSubmitsOwnRecord ==
    sending.record.has => sending.record = parsedBy[sending.user]

\* the record sent by a user is the one the other user parsed
C19_OtherUsersRecord ==
    /\ sending.status = "returned"
    /\ sending.user = "u1"
    /\ parsedBy["u1"] = Just([NoRecord EXCEPT !.board_name = <<"A">>])
    /\ sending.record = parsedBy["u2"]
    /\ sending.record = Just([NoRecord EXCEPT !.board_name = <<"B">>])

\* ---------------------------------------------------------- cache and rows
\* C20: the cache of the remote backend is transparent: whatever lookups came
\* before, a lookup that did not raise gives the outcome that
\* DbDictionaries.find_item_id gives for the same category and raw text with
\* an empty cache and a successful fetch of the same rows, also when two raw
\* texts share one normalized form.
C20_CacheTransparent ==
    (last # NoCall /\ last.out # Raised) =>
        last.out = db_find_item_id(last.cat, last.text, EmptyCache, last.at,
                                   TRUE, RemoteRows(rows)).out

\* ------------------------------------------------------- failed parses
\* C21: when the latest parse_excel_pcb call raised (at the extraction, the
\* model call, the file export or the field mapping), the module-level
\* pending record is the one held before that call; and while no parse has
\* returned, no send has submitted a record or sent a request.
C21_FailedParseLeavesPending ==
    /\ parsing.status = "raised" => _parsed_pcb_data = parsing.before
    /\ (\A u \in DOMAIN parsedBy : ~parsedBy[u].has) =>
            (~sending.record.has /\ requests = 0)

\* a send that submitted the record of a parse that raised at the file export
C21_SentAfterFailedParse ==
    /\ parsing.status = "raised"
    /\ ~parsing.before.has
    /\ \A u \in Users : ~parsedBy[u].has
    /\ sending.status = "returned"
    /\ sending.record = _parsed_pcb_data
    /\ requests = 1

\* -------------------------------------------------------------- retries
\* utils.process_excel_pcb_with_retry, one step per model invocation and sleep
\* the messages of the exceptions llm_parser.invoke raises
ErrorMessages == { <<"H", "T", "T", "P", " ", "4", "2", "9">>, <<"C", "a", "p", "a", "c", "i", "t", "y", " ", "E", "x", "c", "e", "e", "d", "e", "d">>, <<"t", "i", "m", "e", "o", "u", "t">>, <<"4", "0", "1", " ", "b", "a", "d", " ", "k", "e", "y">> }

\* what one llm_parser.invoke call does
Invocations ==
    {[ok |-> TRUE, msg |-> <<>>]} \cup [ok : {FALSE}, msg : ErrorMessages]

\* the delay arguments, in thousandths of a second (default 2.0)
Delays == {500, 2000}

\* is_rate_limit that takes every error for a rate-limit error
is_rate_limit_Always(error_msg) == TRUE

\* "429" in error_msg or "capacity exceeded" in error_msg.lower()
is_rate_limit(error_msg) ==
    \/ Contains(<<"4", "2", "9">>, error_msg)
    \/ Contains(<<"c", "a", "p", "a", "c", "i", "t", "y", " ", "e", "x", "c", "e", "e", "d", "e", "d">>, Lower(error_msg))

\* 2 ** n
Pow2(n) == 2 ^ n

\* the message of the exception raised when every attempt was rate-limited
Unavailable == <<"u", "n", "a", "v", "a", "i", "l", "a", "b", "l", "e">>

RetryInit ==
    /\ StoreIdle
    /\ NormIdle
    /\ LookupIdle
    /\ CallIdle
    /\ MapIdle
    /\ SubmitIdle
    /\ FindIdle
    /\ UiIdle
    /\ max_retries \in 0..MaxRetries
    /\ delay \in Delays
    /\ attempt = 0
    /\ position = "invoke"
    /\ invocations = 0
    /\ errors = <<>>
    /\ waited = 0
    /\ outcome = NotStarted

\* one pass of the loop body: the invocation and the handling of what it raised
Invoke(i) ==
    /\ position = "invoke"
    /\ attempt < max_retries
    /\ invocations' = invocations + 1
    /\ IF i.ok
       THEN /\ outcome' = [t |-> "returned", v |-> <<"record">>]
            /\ position' = "done"
            /\ UNCHANGED errors
       ELSE /\ errors' = Append(errors, i.msg)
            /\ IF is_rate_limit(i.msg)
               THEN IF attempt < max_retries - 1
                    THEN /\ position' = "sleep"
                         /\ UNCHANGED outcome
                    ELSE /\ outcome' = [t |-> "raised", v |-> Unavailable]
                         /\ position' = "done"
               ELSE /\ outcome' = [t |-> "raised", v |-> i.msg]
                    /\ position' = "done"
    /\ UNCHANGED <<max_retries, delay, attempt, waited, normVars, storeVars,
                   lookupVars, callVars, mapVars, submitVars, findVars, uiVars>>

\* time.sleep(delay * 2 ** attempt), then continue with the next attempt
Sleep ==
    /\ position = "sleep"
    /\ waited' = waited + delay * Pow2(attempt)
    /\ attempt' = attempt + 1
    /\ position' = "invoke"
    /\ UNCHANGED <<max_retries, delay, invocations, errors, outcome, normVars,
                   storeVars, lookupVars, callVars, mapVars, submitVars, findVars,
                   uiVars>>

\* the loop ends without a return or a raise: return None
LoopEnds ==
    /\ position = "invoke"
    /\ attempt >= max_retries
    /\ outcome' = [t |-> "returned", v |-> Null]
    /\ position' = "done"
    /\ UNCHANGED <<max_retries, delay, attempt, invocations, errors, waited,
                   normVars, storeVars, lookupVars, callVars, mapVars, submitVars,
                   findVars, uiVars>>

RetryNext ==
    \/ \E i \in Invocations : Invoke(i)
    \/ Sleep
    \/ LoopEnds

\* an invocation returns or raises, and a sleep ends
SpecRetry == RetryInit /\ [][RetryNext]_vars /\ WF_vars(RetryNext)

\* the messages that name a rate limit
RateLimitMessages == { <<"H", "T", "T", "P", " ", "4", "2", "9">>, <<"C", "a", "p", "a", "c", "i", "t", "y", " ", "E", "x", "c", "e", "e", "d", "e", "d">> }

\* every error in es[1..n] is a rate-limit error
AllRateLimited(es, n) == \A k \in 1..n : es[k] \in RateLimitMessages

\* what holds of a call with max_retries >= 1 at every moment
RetrySafe ==
    max_retries >= 1 =>
        /\ invocations <= max_retries
        /\ invocations = Len(errors) + (IF outcome.t = "returned" THEN 1 ELSE 0)
        /\ AllRateLimited(errors, Len(errors) - 1)
        /\ position \in {"invoke", "sleep"} =>
               /\ outcome = NotStarted
               /\ AllRateLimited(errors, Len(errors))
               /\ Len(errors) < max_retries
        /\ position = "done" => outcome.t \in {"returned", "raised"}
        /\ outcome.t = "returned" =>
               /\ outcome.v = <<"record">>
               /\ AllRateLimited(errors, Len(errors))
        /\ outcome.t = "raised" =>
               /\ errors # <<>>
               /\ IF errors[Len(errors)] \in RateLimitMessages
                  THEN Len(errors) = max_retries /\ outcome.v = Unavailable
                  ELSE outcome.v = errors[Len(errors)]

====
